---- MODULE Spec2Model ----
(***************************************************************************)
(* Model of the BoltDepot supplier (supplier_boltdepot.py): one search     *)
(* call, from the fetch loop through page validation and the field         *)
(* decoders to the returned (parts, count) pair.                           *)
(*                                                                         *)
(* Text is a sequence of one-character strings, so that slicing, prefix    *)
(* tests, case folding and number parsing are computed, not assumed.       *)
(* A document node is a record [tag, id, class, src, kids, text]; a text   *)
(* node has tag "#text".  An attribute that is absent and one that is the  *)
(* empty string are both <<>>: the code never tells them apart (an id      *)
(* filter compares with a non-empty string, and src is tested with `not`). *)
(* A float that round(..., 3) produced is kept as its number of            *)
(* thousandths.                                                            *)
(***************************************************************************)
EXTENDS Integers, Sequences, FiniteSets, TLC

VARIABLES
    search_term,          \* the identifier search() was called with
    page,                 \* the document the vendor serves at the product URL
    pc,                   \* position in search()
    tries,                \* iterations of the fetch loop started so far
    product_page_result,  \* what the last scrape() returned
    requests,             \* every URL handed to scrape(), in order
    warnings,             \* every warning() emitted, in order
    soup,                 \* the parsed document
    content_main,         \* the main content region handed to the decoders
    description,
    price_breaks,
    image_url,
    parameters,
    category_path,
    result,               \* the value search() returned (when pc = "done")
    fault,                \* the exception search() ended with (when pc = "raised")
    raised_in,            \* the function whose statement raised it
    calls                 \* parse / validator / decoder invocations, in order

vars == <<search_term, page, pc, tries, product_page_result, requests, warnings,
          soup, content_main, description, price_breaks, image_url, parameters,
          category_path, result, fault, raised_in, calls>>

-----------------------------------------------------------------------------
(* Bounds of the explored inputs.                                          *)

MaxLinks == 4

MaxCells == 2

MaxRows == 2

-----------------------------------------------------------------------------
(* Text primitives (str methods and the re calls the code uses).           *)

Digits == {"0", "1", "2", "3", "4", "5", "6", "7", "8", "9"}

Whitespace == {" ", "\n", "\t"}

UpperCase == <<"A","B","C","D","E","F","G","H","I","J","K","L","M","N","O","P","Q","R","S","T","U","V","W","X","Y","Z">>

LowerCase == <<"a","b","c","d","e","f","g","h","i","j","k","l","m","n","o","p","q","r","s","t","u","v","w","x","y","z">>

LowerChar(c) ==
    IF \E i \in 1..Len(UpperCase) : UpperCase[i] = c
    THEN LowerCase[CHOOSE i \in 1..Len(UpperCase) : UpperCase[i] = c]
    ELSE c

\* str.lower()
lower(s) == [i \in 1..Len(s) |-> LowerChar(s[i])]

\* str.startswith(p)
startswith(s, p) == Len(s) >= Len(p) /\ SubSeq(s, 1, Len(p)) = p

\* p in s
Contains(s, p) == \E i \in 1..(Len(s) - Len(p) + 1) : SubSeq(s, i, i + Len(p) - 1) = p

\* s[n:]
SliceFrom(s, n) == SubSeq(s, n + 1, Len(s))

\* s.replace(",", "")
RemoveCommas(s) == SelectSeq(s, LAMBDA c : c # ",")

\* str.strip()
strip(s) ==
    LET solid == {i \in 1..Len(s) : s[i] \notin Whitespace}
    IN  IF solid = {} THEN <<>>
        ELSE SubSeq(s, CHOOSE i \in solid : \A j \in solid : i <= j,
                       CHOOSE i \in solid : \A j \in solid : i >= j)

RECURSIVE SkipWhitespace(_)
SkipWhitespace(s) ==
    IF s # <<>> /\ Head(s) \in Whitespace THEN SkipWhitespace(Tail(s)) ELSE s

\* re.sub(r'\s+', ' ', s)
RECURSIVE SubWhitespace(_)
SubWhitespace(s) ==
    IF s = <<>> THEN <<>>
    ELSE IF Head(s) \in Whitespace THEN <<" ">> \o SubWhitespace(SkipWhitespace(s))
    ELSE <<Head(s)>> \o SubWhitespace(Tail(s))

DigitValue(c) ==
    CASE c = "0" -> 0 [] c = "1" -> 1 [] c = "2" -> 2 [] c = "3" -> 3 [] c = "4" -> 4
      [] c = "5" -> 5 [] c = "6" -> 6 [] c = "7" -> 7 [] c = "8" -> 8 [] c = "9" -> 9

RECURSIVE DigitsValue(_)
DigitsValue(s) ==
    IF s = <<>> THEN 0 ELSE DigitsValue(SubSeq(s, 1, Len(s) - 1)) * 10 + DigitValue(s[Len(s)])

AllDigits(s) == \A i \in 1..Len(s) : s[i] \in Digits

RECURSIVE Pow10(_)
Pow10(n) == IF n = 0 THEN 1 ELSE 10 * Pow10(n - 1)

Abs(n) == IF n < 0 THEN 0 - n ELSE n

\* int(s): surrounding whitespace and one leading sign are accepted, then
\* one or more digits; anything else is a ValueError (ok = FALSE).
\* (Digit-group underscores and non-ASCII digits are outside the alphabet
\* of the explored labels.)
ParseInt(s) ==
    LET t == strip(s)
        signed == t # <<>> /\ Head(t) \in {"+", "-"}
        body == IF signed THEN Tail(t) ELSE t
    IN  IF body # <<>> /\ AllDigits(body)
        THEN [ok |-> TRUE,
              val |-> IF signed /\ Head(t) = "-" THEN 0 - DigitsValue(body)
                      ELSE DigitsValue(body)]
        ELSE [ok |-> FALSE, val |-> 0]

\* float(s) for plain decimal notation: surrounding whitespace, one leading
\* sign, digits with at most one point and at least one digit.  The value is
\* mant / 10^scale.  (Exponents, "inf" and "nan" are outside the alphabet of
\* the explored labels.)
ParseFloat(s) ==
    LET t == strip(s)
        signed == t # <<>> /\ Head(t) \in {"+", "-"}
        body == IF signed THEN Tail(t) ELSE t
        points == {i \in 1..Len(body) : body[i] = "."}
        digits == SelectSeq(body, LAMBDA c : c # ".")
        scale == IF points = {} THEN 0 ELSE Len(body) - (CHOOSE i \in points : TRUE)
    IN  IF Cardinality(points) <= 1 /\ digits # <<>> /\ AllDigits(digits)
        THEN [ok |-> TRUE,
              mant |-> IF signed /\ Head(t) = "-" THEN 0 - DigitsValue(digits)
                       ELSE DigitsValue(digits),
              scale |-> scale]
        ELSE [ok |-> FALSE, mant |-> 0, scale |-> 0]

-----------------------------------------------------------------------------
(* Module constants.                                                       *)

DOMAIN_NAME == <<"b","o","l","t","d","e","p","o","t",".","c","o","m">>

API_BASE_URL == <<"h","t","t","p","s",":","/","/">> \o DOMAIN_NAME \o <<"/">>

\* PRODUCT_URL.format(part_id)
PRODUCT_URL(part_id) == API_BASE_URL \o <<"P","r","o","d","u","c","t","-","D","e","t","a","i","l","s","?","p","r","o","d","u","c","t","=">> \o part_id

\* BARCODE_URL.format(part_id)
BARCODE_URL(part_id) ==
    <<"h","t","t","p",":","/","/">> \o DOMAIN_NAME \o <<"/","P","r","o","d","u","c","t","-","D","e","t","a","i","l","s",".","a","s","p","x","?","p","r","o","d","u","c","t","=">> \o part_id

-----------------------------------------------------------------------------
(* Outcome of a call that may raise: fault = "none" and the value, or the  *)
(* exception and the function whose statement raised it.                   *)

Ok(v) == [fault |-> "none", at |-> "", val |-> v]

Raise(kind, where) == [fault |-> kind, at |-> where, val |-> <<>>]

-----------------------------------------------------------------------------
(* The document tree (bs4 Tag / NavigableString) and its queries.          *)

None == [tag |-> "#none", id |-> <<>>, class |-> {}, src |-> <<>>, kids |-> <<>>, text |-> <<>>]

TextNode(s) == [tag |-> "#text", id |-> <<>>, class |-> {}, src |-> <<>>, kids |-> <<>>, text |-> s]

Element(name, kids) ==
    [tag |-> name, id |-> <<>>, class |-> {}, src |-> <<>>, kids |-> kids, text |-> <<>>]

\* isinstance(x, Tag)
IsTag(n) == n.tag \notin {"#none", "#text"}

\* every node below n, in document order (the order find / find_all scan)
RECURSIVE DescendantsOf(_)
DescendantsOf(kids) ==
    IF kids = <<>> THEN <<>>
    ELSE <<Head(kids)>> \o DescendantsOf(Head(kids).kids) \o DescendantsOf(Tail(kids))

\* A navigation step: a tag name, and the attribute filter of the tuple form
\* ({"id": v} or {"class": c}); id = <<>> and class = {} filter nothing.
Step(name) == [name |-> name, id |-> <<>>, class |-> {}]

StepId(name, id) == [name |-> name, id |-> id, class |-> {}]

StepClass(name, c) == [name |-> name, id |-> <<>>, class |-> {c}]

Matches(n, step) ==
    /\ n.tag = step.name
    /\ step.id # <<>> => n.id = step.id
    /\ step.class \subseteq n.class

\* Tag.find_all(name, **attrs)
find_all(tag, step) == SelectSeq(DescendantsOf(tag.kids), LAMBDA n : Matches(n, step))

\* Tag.find(name, **attrs): the first match in document order, or None
find(tag, step) ==
    LET found == find_all(tag, step) IN IF found = <<>> THEN None ELSE found[1]

\* PageElement.get_text(): all the strings below the node, concatenated
RECURSIVE TextOf(_)
TextOf(kids) ==
    IF kids = <<>> THEN <<>>
    ELSE (IF Head(kids).tag = "#text" THEN Head(kids).text ELSE TextOf(Head(kids).kids))
         \o TextOf(Tail(kids))

get_text(n) == IF n.tag = "#text" THEN n.text ELSE TextOf(n.kids)

\* BoltDepot._find_tag: absence propagates; args is the sequence of steps
RECURSIVE _find_tag(_, _)
_find_tag(tag, args) ==
    IF args = <<>> THEN (IF IsTag(tag) THEN tag ELSE None)
    ELSE IF ~IsTag(tag) THEN None
    ELSE LET current_tag == find(tag, Head(args))
         IN  IF current_tag = None THEN None ELSE _find_tag(current_tag, Tail(args))

\* BoltDepot._find_text: a found Tag is always truthy (bs4 defines
\* Tag.__bool__ as True), so contents[0] is evaluated also when the found tag
\* has no children.
_find_text(tag, args) ==
    LET found_tag == _find_tag(tag, args)
    IN  IF found_tag # None
        THEN IF found_tag.kids = <<>>
             THEN Raise("IndexError", "_find_text")
             ELSE Ok(strip(SubWhitespace(get_text(found_tag.kids[1]))))
        ELSE Ok(<<>>)

\* BoltDepot.is_product_page
is_product_page(doc) ==
    LET text == _find_text(doc, <<StepId("div", <<"c","o","n","t","e","n","t","-","m","a","i","n">>), Step("a")>>)
    IN  IF text.fault # "none" THEN text
        ELSE Ok(lower(text.val) = <<"p","r","o","d","u","c","t"," ","c","a","t","a","l","o","g">>)

-----------------------------------------------------------------------------
(* The field decoders.                                                     *)

\* BoltDepot._get_description
_get_description(main) == _find_text(main, <<Step("h1")>>)

\* dict[k] = v
Put(d, k, v) == [x \in (DOMAIN d) \cup {k} |-> IF x = k THEN v ELSE d[x]]

\* Round3 truncating instead of rounding
Round3_Truncating(mant, scale, quantity) ==
    LET num == Abs(mant) * 1000
        den == Pow10(scale) * Abs(quantity)
        sign == IF (mant < 0) = (quantity < 0) THEN 1 ELSE 0 - 1
    IN  {sign * (num \div den)}

\* round(purchase_price / adjusted_quantity, 3), in thousandths, for the
\* price mant / 10^scale and a non-zero quantity.  The quotient is computed
\* in binary floating point and round() then rounds that double correctly,
\* ties to even.  Off a decimal midpoint the nearest thousandth results.  A
\* midpoint (2q+1)/2000 is a double only when 125 divides 2q+1; price and
\* quotient are then exact and the tie goes to the even thousandth.  Any
\* other midpoint is not a double: the computed quotient lies on one side of
\* it, which side depends on the operands' binary expansions, so both
\* neighbours are outcomes.
Round3(mant, scale, quantity) ==
    LET num == Abs(mant) * 1000
        den == Pow10(scale) * Abs(quantity)
        sign == IF (mant < 0) = (quantity < 0) THEN 1 ELSE 0 - 1
        q == num \div den
        r == num % den
        magnitudes ==
            IF 2 * r < den THEN {q}
            ELSE IF 2 * r > den THEN {q + 1}
            ELSE IF (2 * q + 1) % 125 = 0 THEN {IF q % 2 = 0 THEN q ELSE q + 1}
            ELSE {q, q + 1}
    IN  {sign * m : m \in magnitudes}

\* One iteration of the loop over pricing_cells in BoltDepot._get_pricing:
\* the set of outcomes, each the price_breaks after the cell or a raise.
PricingCell(cell, breaks) ==
    LET price_break == _find_text(cell, <<StepClass("span", "price-break")>>)
        price_per_qty == _find_text(cell, <<StepClass("span", "perQty")>>)
        quantity == IF price_per_qty.val = <<"/"," ","e","a">> THEN [ok |-> TRUE, val |-> 1]
                    ELSE ParseInt(RemoveCommas(SliceFrom(price_per_qty.val, 2)))
        purchase_price == ParseFloat(SliceFrom(price_break.val, 1))
    IN  IF price_break.fault # "none" THEN {price_break}
        ELSE IF price_per_qty.fault # "none" THEN {price_per_qty}
        ELSE IF price_break.val = <<>> \/ price_per_qty.val = <<>> THEN {Ok(breaks)}
        ELSE IF ~quantity.ok THEN {Ok(breaks)}
        ELSE IF ~purchase_price.ok THEN {Ok(breaks)}
        ELSE IF quantity.val = 0 THEN {Raise("ZeroDivisionError", "_get_pricing")}
        ELSE {Ok(Put(breaks, quantity.val, unit)) :
                 unit \in Round3(purchase_price.mant, purchase_price.scale, quantity.val)}

RECURSIVE PricingLoop(_, _)
PricingLoop(cells, breaks) ==
    IF cells = <<>> THEN {Ok(breaks)}
    ELSE UNION {IF o.fault # "none" THEN {o} ELSE PricingLoop(Tail(cells), o.val) :
                   o \in PricingCell(Head(cells), breaks)}

\* BoltDepot._get_pricing: the set of its outcomes
_get_pricing(main, part_id) ==
    LET pricing_table == _find_tag(main, <<StepId("table", <<"p","r","o","d","u","c","t","-","l","i","s","t","-","t","a","b","l","e">>)>>)
        pricing_row == _find_tag(pricing_table, <<StepId("tr", <<"p">> \o part_id)>>)
        pricing_cells == find_all(pricing_row, Step("td"))
    IN  IF pricing_table = None THEN {Ok(<<>>)}
        ELSE IF pricing_row = None THEN {Ok(<<>>)}
        ELSE IF pricing_cells = <<>> THEN {Ok(<<>>)}
        ELSE PricingLoop(pricing_cells, <<>>)

\* BoltDepot._get_image_url
_get_image_url(main) ==
    LET image_tag == _find_tag(main, <<StepClass("div", "row"), Step("img")>>)
        url == image_tag.src
    IN  IF ~IsTag(image_tag) THEN <<>>
        ELSE IF url = <<>> THEN <<>>
        ELSE API_BASE_URL \o url

ignore_properties == <<<<"b","o","l","t"," ","d","e","p","o","t">>, <<"c","a","t","e","g","o","r","y">>, <<"s","u","b","c","a","t","e","g","o","r","y">>>>

\* Ignored without the lower(): the stoplist compared case-sensitively
Ignored_CaseSensitive(property_name) ==
    \E i \in 1..Len(ignore_properties) : Contains(property_name, ignore_properties[i])

\* any(property in property_name.lower() for property in ignore_properties)
Ignored(property_name) ==
    \E i \in 1..Len(ignore_properties) : Contains(lower(property_name), ignore_properties[i])

\* the loop over product_details_rows in BoltDepot._get_parameters
RECURSIVE ParametersLoop(_, _)
ParametersLoop(rows, params) ==
    IF rows = <<>> THEN Ok(params)
    ELSE LET property_name == _find_text(Head(rows), <<StepClass("td", "property-name")>>)
             property_value == _find_text(Head(rows), <<StepClass("td", "property-value")>>)
         IN  IF property_name.fault # "none" THEN property_name
             ELSE IF property_value.fault # "none" THEN property_value
             ELSE IF property_name.val = <<>> \/ property_value.val = <<>>
                  THEN ParametersLoop(Tail(rows), params)
             ELSE IF Ignored(property_name.val) THEN ParametersLoop(Tail(rows), params)
             ELSE ParametersLoop(Tail(rows),
                                 Put(params, property_name.val, property_value.val))

\* BoltDepot._get_parameters
_get_parameters(main) ==
    LET product_details_table == _find_tag(main, <<StepClass("table", "product-details-table")>>)
        product_details_rows == find_all(product_details_table, Step("tr"))
    IN  IF product_details_table = None THEN Ok(<<>>)
        ELSE IF product_details_rows = <<>> THEN Ok(<<>>)
        ELSE ParametersLoop(product_details_rows, <<>>)

\* SizeLike with the anchor binding every alternative
SizeLike_Anchored(s) ==
    \/ s # <<>> /\ Head(s) \in Digits \cup {"#", "\""}
    \/ startswith(s, <<"m","m">>)
    \/ startswith(s, <<"i","n","c","h">>)

\* re.search(r"^(?:[#0-9])|(?:(?:mm|#|inch|\"))", s): the anchor binds only
\* the first alternative
SizeLike(s) ==
    \/ s # <<>> /\ Head(s) \in Digits \cup {"#"}
    \/ Contains(s, <<"m","m">>)
    \/ Contains(s, <<"#">>)
    \/ Contains(s, <<"i","n","c","h">>)
    \/ Contains(s, <<"\"">>)

\* list.pop()
pop(list) == SubSeq(list, 1, Len(list) - 1)

\* the breadcrumb texts kept by the loop over nav_a_tags
RECURSIVE CategoryLoop(_)
CategoryLoop(tags) ==
    IF tags = <<>> THEN <<>>
    ELSE IF lower(get_text(Head(tags))) = <<"p","r","o","d","u","c","t"," ","c","a","t","a","l","o","g">> THEN CategoryLoop(Tail(tags))
    ELSE <<get_text(Head(tags))>> \o CategoryLoop(Tail(tags))

\* BoltDepot._get_category_path lines 330-338: category_path[-1] raises
\* IndexError on an empty list
TrimCategoryPath(path) ==
    IF path = <<>> THEN Raise("IndexError", "_get_category_path")
    ELSE LET first == IF SizeLike(path[Len(path)]) THEN pop(path) ELSE path
         IN  IF first = <<>> THEN Raise("IndexError", "_get_category_path")
             ELSE IF startswith(first[Len(first)], <<"S","i","z","e",":"," ">>) THEN Ok(pop(first))
             ELSE Ok(first)

\* BoltDepot._get_category_path
_get_category_path(main) ==
    LET nav == _find_tag(main, <<Step("nav")>>)
        nav_a_tags == find_all(nav, Step("a"))
    IN  IF nav = None THEN Ok(<<>>)
        ELSE IF nav_a_tags = <<>> THEN Ok(<<>>)
        ELSE TrimCategoryPath(CategoryLoop(nav_a_tags))

\* the ApiPart built at the end of BoltDepot._scrape_api_part
ApiPart(part_id, desc, image, path, params, breaks) ==
    [description |-> desc,
     image_url |-> image,
     datasheet_url |-> <<>>,
     supplier_link |-> PRODUCT_URL(part_id),
     SKU |-> part_id,
     manufacturer |-> <<"B","o","l","t","D","e","p","o","t">>,
     manufacturer_link |-> PRODUCT_URL(part_id),
     MPN |-> part_id,
     quantity_available |-> 0,
     packaging |-> <<>>,
     category_path |-> path,
     parameters |-> params,
     price_breaks |-> breaks,
     currency |-> <<"U","S","D">>,
     barcode |-> BARCODE_URL(part_id)]

-----------------------------------------------------------------------------
(* The explored inputs: identifiers and served documents.                  *)

PartIds == {<<"1","2","3","4">>, <<"7","7">>}

SeqsUpTo(S, n) == UNION {[1..k -> S] : k \in 0..n}

WithId(n, id) == [n EXCEPT !.id = id]

WithClass(n, c) == [n EXCEPT !.class = {c}]

WithSrc(n, url) == [n EXCEPT !.src = url]

Link(text) == Element("a", <<TextNode(text)>>)

\* a breadcrumb: <nav> holding one link per text
Nav(texts) == Element("nav", [i \in 1..Len(texts) |-> Link(texts[i])])

LinkTexts ==
    {<<"P","r","o","d","u","c","t"," ","C","a","t","a","l","o","g">>, <<"B","o","l","t","s">>, <<"H","e","x"," ","B","o","l","t","s">>, <<"3","m","m"," ","x"," ","0",".","5","m","m">>,
     <<"S","i","z","e",":"," ","1","/","4"," ","i","n","c","h">>, <<"S","i","z","e",":"," ","L","a","r","g","e">>}

\* a span of a price cell: absent, present without content, or holding a label
SpanChoices(class, labels) ==
    {<<>>, <<WithClass(Element("span", <<>>), class)>>}
        \cup {<<WithClass(Element("span", <<TextNode(l)>>), class)>> : l \in labels}

PriceLabels == {<<"$","1",".","2","3">>, <<"$","1","2",".","0","0">>, <<"$","0",".","7","5">>, <<"N","/","A">>}

QtyLabels == {<<"/"," ","e","a">>, <<"/"," ","1",",","0","0","0">>, <<"/"," ","4">>, <<"/"," ","0">>, <<"/"," ","l","o","t">>}

PriceSpan(label) == <<WithClass(Element("span", <<TextNode(label)>>), "price-break")>>

QtySpan(label) == <<WithClass(Element("span", <<TextNode(label)>>), "perQty")>>

\* price cells: either label ranging over all its choices beside a well-formed
\* other label, and pairs whose quotient is exact, a tie, or below a thousandth
Cells ==
    {Element("td", p \o QtySpan(<<"/"," ","e","a">>)) : p \in SpanChoices("price-break", PriceLabels)}
        \cup {Element("td", PriceSpan(<<"$","1",".","2","3">>) \o q) : q \in SpanChoices("perQty", QtyLabels)}
        \cup {Element("td", PriceSpan(<<"$","1","2",".","0","0">>) \o QtySpan(<<"/"," ","1",",","0","0","0">>)),
              Element("td", PriceSpan(<<"$","0",".","7","5">>) \o QtySpan(<<"/"," ","4">>)),
              Element("td", PriceSpan(<<"$","0",".","7","5">>) \o QtySpan(<<"/"," ","1",",","0","0","0">>)),
              Element("td", <<>>)}

\* the pricing table, with its one row keyed "p" + identifier
PricingTable(row_id, cells) ==
    WithId(Element("table", <<WithId(Element("tr", cells), row_id)>>), <<"p","r","o","d","u","c","t","-","l","i","s","t","-","t","a","b","l","e">>)

\* a cell of a details row: absent, present without content, or holding text
CellChoices(class, texts) ==
    {<<>>, <<WithClass(Element("td", <<>>), class)>>}
        \cup {<<WithClass(Element("td", <<TextNode(t)>>), class)>> : t \in texts}

PropertyNames == {<<"L","e","n","g","t","h">>, <<"M","a","t","e","r","i","a","l">>, <<"B","o","l","t"," ","D","e","p","o","t"," ","p","r","o","d","u","c","t","#">>, <<"S","u","b","c","a","t","e","g","o","r","y">>}

PropertyValues == {<<"S","t","e","e","l">>, <<"1"," ","i","n","c","h">>}

Rows ==
    {Element("tr", n \o v) :
        n \in CellChoices("property-name", PropertyNames),
        v \in CellChoices("property-value", PropertyValues)}

DetailsTable(rows) == WithClass(Element("table", rows), "product-details-table")

ImageRow == WithClass(Element("div", <<WithSrc(Element("img", <<>>), <<"i","m","a","g","e","s","/","1","2","3","4",".","p","n","g">>)>>), "row")

MainRegion(kids) == WithId(Element("div", kids), <<"c","o","n","t","e","n","t","-","m","a","i","n">>)

Document(kids) == Element("[document]", <<Element("body", kids)>>)

Heading == Element("h1", <<TextNode(<<"H","e","x"," "," ","B","o","l","t","\n">>), Element("small", <<TextNode(<<"n","e","w">>)>>)>>)

\* what may precede the breadcrumb inside the main content region
LeadChoices ==
    {<<>>,
     <<Element("a", <<>>)>>,
     <<Link(<<"H","o","m","e">>)>>,
     <<Link(<<" ","p","r","o","d","u","c","t","\n"," ","C","A","T","A","L","O","G"," ">>)>>,
     <<Element("a", <<Element("b", <<TextNode(<<"N","e","w">>)>>), TextNode(<<"P","r","o","d","u","c","t"," ","C","a","t","a","l","o","g">>)>>)>>}

HeadingChoices ==
    {<<>>, <<Element("h1", <<>>)>>, <<Element("h1", <<TextNode(<<" ","\n">>)>>)>>, <<Heading>>}

NavSamples ==
    {<<>>, <<Element("nav", <<>>)>>}
        \cup {<<Nav(t)>> : t \in {<<<<"P","r","o","d","u","c","t"," ","C","a","t","a","l","o","g">>>>,
                                  <<<<"P","r","o","d","u","c","t"," ","C","a","t","a","l","o","g">>, <<"B","o","l","t","s">>>>,
                                  <<<<"P","r","o","d","u","c","t"," ","C","a","t","a","l","o","g">>, <<"3","m","m"," ","x"," ","0",".","5","m","m">>>>,
                                  <<<<"P","r","o","d","u","c","t"," ","C","a","t","a","l","o","g">>, <<"B","o","l","t","s">>, <<"S","i","z","e",":"," ","L","a","r","g","e">>>>,
                                  <<<<"P","R","O","D","U","C","T"," ","C","A","T","A","L","O","G">>, <<"B","o","l","t","s">>, <<"H","e","x"," ","B","o","l","t","s">>, <<"#","4">>>>}}

DefaultNav == Nav(<<<<"P","r","o","d","u","c","t"," ","C","a","t","a","l","o","g">>, <<"B","o","l","t","s">>, <<"H","e","x"," ","B","o","l","t","s">>, <<"3","m","m"," ","x"," ","0",".","5","m","m">>>>)

DefaultPricing ==
    PricingTable(<<"p","1","2","3","4">>,
        <<Element("td", PriceSpan(<<"$","1",".","2","3">>) \o QtySpan(<<"/"," ","e","a">>)),
          Element("td", PriceSpan(<<"$","1","2",".","0","0">>) \o QtySpan(<<"/"," ","1",",","0","0","0">>))>>)

DefaultDetails ==
    DetailsTable(<<Element("tr", <<WithClass(Element("td", <<TextNode(<<"L","e","n","g","t","h">>)>>), "property-name"),
                                  WithClass(Element("td", <<TextNode(<<"1"," ","i","n","c","h">>)>>), "property-value")>>)>>)

\* pages whose head of the main region varies
HeadPages ==
    {Document(<<MainRegion(lead \o nav \o heading \o <<ImageRow, DefaultPricing, DefaultDetails>>)>>) :
        lead \in LeadChoices, nav \in NavSamples, heading \in HeadingChoices}

\* pages whose price row varies
PricingPages ==
    {Document(<<MainRegion(<<DefaultNav, Heading, PricingTable(<<"p","1","2","3","4">>, cells), DefaultDetails>>)>>) :
        cells \in SeqsUpTo(Cells, 1)}

\* pages whose details table varies
DetailsPages ==
    {Document(<<MainRegion(<<DefaultNav, Heading, DefaultPricing, DetailsTable(rows)>>)>>) :
        rows \in SeqsUpTo(Rows, 1)}

\* pages without a main content region, or without tables
BarePages ==
    {Document(<<>>), Document(<<Link(<<"P","r","o","d","u","c","t"," ","C","a","t","a","l","o","g">>)>>),
     Document(<<MainRegion(<<DefaultNav, Heading>>)>>)}

Pages == HeadPages \cup PricingPages \cup DetailsPages \cup BarePages

-----------------------------------------------------------------------------
(* search(): state, steps and specification.                               *)

Attempts == 3

NoParts == [parts |-> <<>>, count |-> 0]

Start(id, doc, main, at) ==
    /\ search_term = id
    /\ page = doc
    /\ pc = at
    /\ tries = 0
    /\ product_page_result = None
    /\ requests = <<>>
    /\ warnings = <<>>
    /\ soup = None
    /\ content_main = main
    /\ description = <<>>
    /\ price_breaks = <<>>
    /\ image_url = <<>>
    /\ parameters = <<>>
    /\ category_path = <<>>
    /\ result = NoParts
    /\ fault = "none"
    /\ raised_in = ""
    /\ calls = <<>>

\* search(search_term) is entered
Init == \E id \in PartIds, doc \in Pages : Start(id, doc, None, "fetch")

\* an exception leaves search(): nothing is returned
Raised(o) ==
    /\ pc' = "raised"
    /\ fault' = o.fault
    /\ raised_in' = o.at
    /\ UNCHANGED <<warnings, result>>

\* _scrape_api_part returned None: search lines 68-70
ReturnNone ==
    /\ pc' = "done"
    /\ warnings' = Append(warnings, [kind |-> "parse", url |-> PRODUCT_URL(search_term)])
    /\ result' = NoParts
    /\ UNCHANGED <<fault, raised_in>>

Continue(next) ==
    /\ pc' = next
    /\ UNCHANGED <<fault, raised_in, warnings, result>>

\* search lines 50-54: an iteration whose scrape() yields a response
ScrapeResponds ==
    /\ pc = "fetch"
    /\ tries < Attempts
    /\ tries' = tries + 1
    /\ requests' = Append(requests, PRODUCT_URL(search_term))
    /\ product_page_result' = page
    /\ pc' = "parse"
    /\ UNCHANGED <<search_term, page, warnings, soup, content_main, description, price_breaks,
                   image_url, parameters, category_path, result, fault, raised_in, calls>>

\* ScrapeFails with the loop bound off by one: a fourth attempt is made
ScrapeFails_OneMore ==
    /\ pc = "fetch"
    /\ tries <= Attempts
    /\ tries' = tries + 1
    /\ requests' = Append(requests, PRODUCT_URL(search_term))
    /\ product_page_result' = None
    /\ pc' = IF tries + 1 <= Attempts THEN "fetch" ELSE "exhausted"
    /\ UNCHANGED <<search_term, page, warnings, soup, content_main, description, price_breaks,
                   image_url, parameters, category_path, result, fault, raised_in, calls>>

\* search lines 50-54: an iteration whose scrape() yields nothing
ScrapeFails ==
    /\ pc = "fetch"
    /\ tries < Attempts
    /\ tries' = tries + 1
    /\ requests' = Append(requests, PRODUCT_URL(search_term))
    /\ product_page_result' = None
    /\ pc' = IF tries + 1 < Attempts THEN "fetch" ELSE "exhausted"
    /\ UNCHANGED <<search_term, page, warnings, soup, content_main, description, price_breaks,
                   image_url, parameters, category_path, result, fault, raised_in, calls>>

\* search lines 55-57: the loop's else clause
NoResponse ==
    /\ pc = "exhausted"
    /\ warnings' = Append(warnings, [kind |-> "no response", url |-> PRODUCT_URL(search_term)])
    /\ result' = NoParts
    /\ pc' = "done"
    /\ UNCHANGED <<search_term, page, tries, product_page_result, requests, soup, content_main,
                   description, price_breaks, image_url, parameters, category_path, fault,
                   raised_in, calls>>

\* search lines 60-64: parse the content, then is_product_page
Validate ==
    /\ pc = "parse"
    /\ soup' = product_page_result
    /\ calls' = calls \o <<"BeautifulSoup", "is_product_page">>
    /\ LET valid == is_product_page(product_page_result)
       IN  IF valid.fault # "none" THEN Raised(valid)
           ELSE IF ~valid.val
                THEN pc' = "done" /\ result' = NoParts /\ UNCHANGED <<fault, raised_in, warnings>>
           ELSE Continue("description")
    /\ UNCHANGED <<search_term, page, tries, product_page_result, requests, content_main,
                   description, price_breaks, image_url, parameters, category_path>>

\* _scrape_api_part lines 160-166
ScrapeDescription ==
    /\ pc = "description"
    /\ LET main == _find_tag(soup, <<StepId("div", <<"c","o","n","t","e","n","t","-","m","a","i","n">>)>>)
           text == _get_description(main)
       IN  /\ content_main' = main
           /\ IF main = None
              THEN calls' = calls /\ description' = description /\ ReturnNone
              ELSE /\ calls' = Append(calls, "_get_description")
                   /\ IF text.fault # "none" THEN description' = description /\ Raised(text)
                      ELSE /\ description' = text.val
                           /\ IF text.val = <<>> THEN ReturnNone ELSE Continue("pricing")
    /\ UNCHANGED <<search_term, page, tries, product_page_result, requests, soup, price_breaks,
                   image_url, parameters, category_path>>

\* _scrape_api_part line 167
ScrapePricing ==
    /\ pc = "pricing"
    /\ calls' = Append(calls, "_get_pricing")
    /\ \E o \in _get_pricing(content_main, search_term) :
          IF o.fault # "none" THEN price_breaks' = price_breaks /\ Raised(o)
          ELSE price_breaks' = o.val /\ Continue("image")
    /\ UNCHANGED <<search_term, page, tries, product_page_result, requests, soup, content_main,
                   description, image_url, parameters, category_path>>

\* _scrape_api_part line 168
ScrapeImage ==
    /\ pc = "image"
    /\ calls' = Append(calls, "_get_image_url")
    /\ image_url' = _get_image_url(content_main)
    /\ Continue("parameters")
    /\ UNCHANGED <<search_term, page, tries, product_page_result, requests, soup, content_main,
                   description, price_breaks, parameters, category_path>>

\* _scrape_api_part line 169
ScrapeParameters ==
    /\ pc = "parameters"
    /\ calls' = Append(calls, "_get_parameters")
    /\ LET o == _get_parameters(content_main)
       IN  IF o.fault # "none" THEN parameters' = parameters /\ Raised(o)
           ELSE parameters' = o.val /\ Continue("category")
    /\ UNCHANGED <<search_term, page, tries, product_page_result, requests, soup, content_main,
                   description, price_breaks, image_url, category_path>>

\* _scrape_api_part line 170
ScrapeCategoryPath ==
    /\ pc = "category"
    /\ calls' = Append(calls, "_get_category_path")
    /\ LET o == _get_category_path(content_main)
       IN  IF o.fault # "none" THEN category_path' = category_path /\ Raised(o)
           ELSE category_path' = o.val /\ Continue("assemble")
    /\ UNCHANGED <<search_term, page, tries, product_page_result, requests, soup, content_main,
                   description, price_breaks, image_url, parameters>>

\* Assemble without the check of line 171: the part is built whatever the path
Assemble_Unchecked ==
    /\ pc = "assemble"
    /\ pc' = "done"
    /\ result' = [parts |-> <<ApiPart(search_term, description, image_url, category_path,
                                      parameters, price_breaks)>>,
                  count |-> 1]
    /\ UNCHANGED <<fault, raised_in, warnings>>
    /\ UNCHANGED <<search_term, page, tries, product_page_result, requests, soup, content_main,
                   description, price_breaks, image_url, parameters, category_path, calls>>

\* _scrape_api_part lines 171-190, then search lines 68-73
Assemble ==
    /\ pc = "assemble"
    /\ IF Len(category_path) = 0 THEN ReturnNone
       ELSE /\ pc' = "done"
            /\ result' = [parts |-> <<ApiPart(search_term, description, image_url, category_path,
                                              parameters, price_breaks)>>,
                          count |-> 1]
            /\ UNCHANGED <<fault, raised_in, warnings>>
    /\ UNCHANGED <<search_term, page, tries, product_page_result, requests, soup, content_main,
                   description, price_breaks, image_url, parameters, category_path, calls>>

Next ==
    \/ ScrapeResponds
    \/ ScrapeFails
    \/ NoResponse
    \/ Validate
    \/ ScrapeDescription
    \/ ScrapePricing
    \/ ScrapeImage
    \/ ScrapeParameters
    \/ ScrapeCategoryPath
    \/ Assemble

Spec == Init /\ [][Next]_vars

-----------------------------------------------------------------------------
(* The decoders on their own: each specification draws a main content      *)
(* region from every sequence of breadcrumb links, price cells or details  *)
(* rows up to the bound, and applies the one decoder to it.                *)

CategoryRegions ==
    {MainRegion(<<Heading>>)}
        \cup {MainRegion(<<Nav(texts), Heading>>) : texts \in SeqsUpTo(LinkTexts, MaxLinks)}

InitCategory == \E main \in CategoryRegions : Start(<<"1","2","3","4">>, None, main, "category")

SpecCategory == InitCategory /\ [][ScrapeCategoryPath]_vars

PricingRegions ==
    {MainRegion(<<Heading>>)}
        \cup {MainRegion(<<Heading, PricingTable(<<"p","1","2","3","4">>, cells)>>) :
                 cells \in SeqsUpTo(Cells, MaxCells)}

InitPricing == \E main \in PricingRegions : Start(<<"1","2","3","4">>, None, main, "pricing")

SpecPricing == InitPricing /\ [][ScrapePricing]_vars

DetailsRegions ==
    {MainRegion(<<Heading>>)}
        \cup {MainRegion(<<Heading, DetailsTable(rows)>>) : rows \in SeqsUpTo(Rows, MaxRows)}

InitParameters == \E main \in DetailsRegions : Start(<<"1","2","3","4">>, None, main, "parameters")

SpecParameters == InitParameters /\ [][ScrapeParameters]_vars

-----------------------------------------------------------------------------
(* Properties.                                                             *)

Last(seq) == seq[Len(seq)]

\* the decoder named f has just been applied
JustRan(f) == calls # <<>> /\ Last(calls) = f

\* C1: whenever search returns, the result is ([], 0) or ([r], 1): the count
\* equals the length of the list, which is at most 1, and a returned record
\* has a non-empty description and a non-empty category path.
C1_ResultShape ==
    pc = "done" =>
        /\ result.count = Len(result.parts)
        /\ Len(result.parts) <= 1
        /\ \A i \in 1..Len(result.parts) :
              /\ result.parts[i].description # <<>>
              /\ result.parts[i].category_path # <<>>

\* a search that returned one record
C1_Witness == pc = "done" /\ result.count = 1 /\ Len(result.parts) = 1

\* C2: search never ends in a raised fault; every failure is ([], 0) or an
\* empty or partial field of the returned record.
C2_NeverRaises == pc # "raised" /\ fault = "none"

\* the fetches made so far, and the return after three of them failed
C3_FetchState ==
    /\ Len(requests) = tries
    /\ tries <= 3
    /\ \A i \in 1..Len(requests) : requests[i] = PRODUCT_URL(search_term)
    /\ pc # "fetch" => tries >= 1
    /\ product_page_result # None => pc \notin {"fetch", "exhausted"}
    /\ (pc \notin {"fetch", "exhausted"} /\ calls # <<>>) => product_page_result # None
    /\ (pc = "done" /\ product_page_result = None) =>
          /\ tries = 3
          /\ result = NoParts
          /\ warnings = <<[kind |-> "no response", url |-> PRODUCT_URL(search_term)]>>
          /\ calls = <<>>
          /\ soup = None

\* once a response is held no further fetch is made, and a call that holds
\* none goes on fetching until the third attempt
C3_FetchStep ==
    /\ product_page_result # None => requests' = requests
    /\ (pc = "fetch" /\ product_page_result' # None) => pc' = "parse"
    /\ (pc = "fetch" /\ product_page_result' = None /\ tries' < 3) => pc' = "fetch"

\* C3: in one call the fetch is attempted at least once and at most 3 times,
\* always at the product URL of the identifier; the first response is accepted
\* and nothing is fetched after it; after 3 attempts without a response the
\* call warns once and returns ([], 0) with nothing parsed, validated or decoded.
C3_FetchLoop == []C3_FetchState /\ [][C3_FetchStep]_vars

\* three attempts without a response, then the warning and ([], 0)
C3_Witness ==
    /\ pc = "done"
    /\ tries = 3
    /\ product_page_result = None
    /\ warnings # <<>>
    /\ result = NoParts

\* the first content child's text of node, normalised; empty for a missing
\* node and for a node without content children
NodeText(node) ==
    IF node = None \/ node.kids = <<>> THEN <<>>
    ELSE strip(SubWhitespace(get_text(node.kids[1])))

ValidatorRan == Len(calls) >= 2 /\ calls[2] = "is_product_page"

\* C4: for a fetched document whose first link inside the main content
\* region does not read "product catalog" (whitespace-normalised, lower-cased;
\* also with no main region or no link), search returns ([], 0), warns about
\* nothing and runs no field decoder.
C4_NotAProductPage ==
    (/\ ValidatorRan
     /\ lower(NodeText(_find_tag(soup, <<StepId("div", <<"c","o","n","t","e","n","t","-","m","a","i","n">>), Step("a")>>)))
            # <<"p","r","o","d","u","c","t"," ","c","a","t","a","l","o","g">>)
        => /\ pc = "done"
           /\ result = NoParts
           /\ warnings = <<>>
           /\ calls = <<"BeautifulSoup", "is_product_page">>

\* the texts of the breadcrumb's links, in document order
BreadcrumbTexts(main) ==
    LET links == find_all(find(main, Step("nav")), Step("a"))
    IN  [i \in 1..Len(links) |-> get_text(links[i])]

IsRoot(text) == lower(text) = <<"p","r","o","d","u","c","t"," ","c","a","t","a","l","o","g">>

\* C5: the Category Path decoder never indexes an empty sequence: a
\* breadcrumb of root links only decodes to the empty sequence, and each
\* trailing-element check is evaluated only on a non-empty sequence.
C5_NoEmptyIndexing ==
    /\ ~(fault = "IndexError" /\ raised_in = "_get_category_path")
    /\ (/\ JustRan("_get_category_path")
        /\ BreadcrumbTexts(content_main) # <<>>
        /\ \A i \in 1..Len(BreadcrumbTexts(content_main)) : IsRoot(BreadcrumbTexts(content_main)[i]))
          => pc = "assemble" /\ category_path = <<>>

\* C6: the Text Extractor returns the empty string, and raises nothing, when
\* the path does not resolve and when the node has no content children;
\* otherwise the first content child's text, whitespace runs collapsed and
\* the ends trimmed.
C6_TextExtractor ==
    /\ raised_in # "_find_text"
    /\ JustRan("_get_description") =>
          /\ pc # "raised"
          /\ description = NodeText(find(content_main, Step("h1")))

\* the cells of the identifier's price row
PriceCells(main, part_id) ==
    find_all(_find_tag(main, <<StepId("table", <<"p","r","o","d","u","c","t","-","l","i","s","t","-","t","a","b","l","e">>),
                              StepId("tr", <<"p">> \o part_id)>>), Step("td"))

PriceLabel(cell) == NodeText(find(cell, StepClass("span", "price-break")))

QtyLabel(cell) == NodeText(find(cell, StepClass("span", "perQty")))

\* lot size of a quantity label: 1 for "/ ea", else the integer after "/ "
\* with the thousands separators stripped
LotSize(label) ==
    IF label = <<"/"," ","e","a">> THEN [ok |-> TRUE, val |-> 1]
    ELSE IF startswith(label, <<"/"," ">>) THEN ParseInt(RemoveCommas(SliceFrom(label, 2)))
    ELSE [ok |-> FALSE, val |-> 0]

\* the decimal after the currency symbol
LabelPrice(label) ==
    IF label # <<>> /\ Head(label) \notin Digits \cup {".", "+", "-", " "}
    THEN ParseFloat(Tail(label))
    ELSE [ok |-> FALSE, mant |-> 0, scale |-> 0]

\* a label is missing or does not parse
Malformed(cell) == ~LabelPrice(PriceLabel(cell)).ok \/ ~LotSize(QtyLabel(cell)).ok

\* C7: a price cell with a missing or unparsable label contributes no entry
\* and raises nothing, and the row yields exactly what it yields with such
\* cells removed.
C7_MalformedCellsSkipped ==
    JustRan("_get_pricing") =>
        LET cells == PriceCells(content_main, search_term)
            sound == SelectSeq(cells, LAMBDA c : ~Malformed(c))
            expected == PricingLoop(sound, <<>>)
        IN  (\A o \in expected : o.fault = "none")
               => pc # "raised" /\ Ok(price_breaks) \in expected

\* the size heuristic in the words of the contract: starts with '#' or a
\* digit, or holds "mm", "#", "inch" or a double quote anywhere
SizeToken(t) ==
    \/ t # <<>> /\ (t[1] = "#" \/ t[1] \in Digits)
    \/ \E i \in 1..Len(t) :
          \/ t[i] \in {"#", "\""}
          \/ i + 1 <= Len(t) /\ t[i] = "m" /\ t[i + 1] = "m"
          \/ i + 3 <= Len(t) /\ <<t[i], t[i + 1], t[i + 2], t[i + 3]>> = <<"i","n","c","h">>

DropLastSize(path) ==
    IF path # <<>> /\ SizeToken(path[Len(path)]) THEN SubSeq(path, 1, Len(path) - 1) ELSE path

DropLastPrefixed(path) ==
    IF path # <<>> /\ startswith(path[Len(path)], <<"S","i","z","e",":"," ">>)
    THEN SubSeq(path, 1, Len(path) - 1) ELSE path

\* links in document order minus the root entries, then the two trailing checks
ExpectedCategoryPath(main) ==
    DropLastPrefixed(DropLastSize(SelectSeq(BreadcrumbTexts(main), LAMBDA t : ~IsRoot(t))))

CategoryReturned == JustRan("_get_category_path") /\ pc = "assemble"

EndsInQuarterInch(main) ==
    BreadcrumbTexts(main) # <<>> /\ Last(BreadcrumbTexts(main)) = <<"S","i","z","e",":"," ","1","/","4"," ","i","n","c","h">>

\* C8, as amended: the decoder's result is the breadcrumb's link texts in
\* document order without the root entries, less a last
\* element that looks like a size, less a then-last element that starts with
\* "Size: "; ["Product Catalog", "Bolts", "Hex Bolts", "3mm x 0.5mm"] gives
\* ["Bolts", "Hex Bolts"]; a trailing "Size: 1/4 inch" is dropped, and it is
\* the size heuristic that drops it (it holds "inch").
C8_CategoryPathDecoded ==
    CategoryReturned =>
        /\ category_path = ExpectedCategoryPath(content_main)
        /\ BreadcrumbTexts(content_main)
               = <<<<"P","r","o","d","u","c","t"," ","C","a","t","a","l","o","g">>, <<"B","o","l","t","s">>, <<"H","e","x"," ","B","o","l","t","s">>, <<"3","m","m"," ","x"," ","0",".","5","m","m">>>>
             => category_path = <<<<"B","o","l","t","s">>, <<"H","e","x"," ","B","o","l","t","s">>>>
        /\ EndsInQuarterInch(content_main) =>
              /\ Len(category_path) < Len(SelectSeq(BreadcrumbTexts(content_main), LAMBDA t : ~IsRoot(t)))
              /\ SizeLike(Last(BreadcrumbTexts(content_main)))

\* the root is filtered, the size heuristic drops "Size: 1/4 inch" and the
\* prefix check then drops "Size: Large"
C8_Witness ==
    /\ CategoryReturned
    /\ BreadcrumbTexts(content_main)
           = <<<<"P","r","o","d","u","c","t"," ","C","a","t","a","l","o","g">>, <<"B","o","l","t","s">>, <<"S","i","z","e",":"," ","L","a","r","g","e">>, <<"S","i","z","e",":"," ","1","/","4"," ","i","n","c","h">>>>
    /\ category_path = <<<<"B","o","l","t","s">>>>

\* C8 as stated: the same result, with the trailing "Size: 1/4 inch" dropped
\* although it does not match the size heuristic.
C8_AsStated ==
    CategoryReturned =>
        /\ category_path = ExpectedCategoryPath(content_main)
        /\ EndsInQuarterInch(content_main) =>
              /\ Len(category_path) < Len(SelectSeq(BreadcrumbTexts(content_main), LAMBDA t : ~IsRoot(t)))
              /\ ~SizeLike(Last(BreadcrumbTexts(content_main)))

DetailsRows(main) ==
    find_all(find(main, StepClass("table", "product-details-table")), Step("tr"))

PropertyName(row) == NodeText(find(row, StepClass("td", "property-name")))

PropertyValue(row) == NodeText(find(row, StepClass("td", "property-value")))

OnStoplist(name) ==
    \E word \in {<<"b","o","l","t"," ","d","e","p","o","t">>, <<"c","a","t","e","g","o","r","y">>, <<"s","u","b","c","a","t","e","g","o","r","y">>} : Contains(lower(name), word)

\* the row is one the mapping takes its entries from
Contributes(row) ==
    PropertyName(row) # <<>> /\ PropertyValue(row) # <<>> /\ ~OnStoplist(PropertyName(row))

ExpectedParameters(rows) ==
    LET named(n) == {i \in 1..Len(rows) : Contributes(rows[i]) /\ PropertyName(rows[i]) = n}
        names == {PropertyName(rows[i]) : i \in {j \in 1..Len(rows) : Contributes(rows[j])}}
    IN  [n \in names |-> PropertyValue(rows[CHOOSE i \in named(n) : \A j \in named(n) : j <= i])]

ParametersReturned == JustRan("_get_parameters") /\ pc = "category"

\* C9: the parameters mapping has an entry exactly for the details rows whose
\* name and value cells both hold text and whose name, lower-cased, holds no
\* stoplist word; a name given by several rows keeps the last row's value;
\* without a table or rows the mapping is empty.
C9_ParametersDecoded ==
    ParametersReturned =>
        /\ DOMAIN parameters = DOMAIN ExpectedParameters(DetailsRows(content_main))
        /\ \A n \in DOMAIN parameters :
              parameters[n] = ExpectedParameters(DetailsRows(content_main))[n]
        /\ DetailsRows(content_main) = <<>> => DOMAIN parameters = {}

\* two rows give the same name with different values: the second is kept
C9_Witness ==
    /\ ParametersReturned
    /\ LET rows == DetailsRows(content_main)
       IN  /\ Len(rows) = 2
           /\ Contributes(rows[1]) /\ Contributes(rows[2])
           /\ PropertyName(rows[1]) = PropertyName(rows[2])
           /\ PropertyValue(rows[1]) # PropertyValue(rows[2])
           /\ parameters[PropertyName(rows[2])] = PropertyValue(rows[2])

\* v thousandths is price / lot rounded to 3 decimal places: no further than
\* half a thousandth from the quotient
RoundedTo3(v, price, lot) ==
    2 * Abs(price.mant * 1000 - v * lot * Pow10(price.scale)) <= Abs(lot) * Pow10(price.scale)

PricingReturned == JustRan("_get_pricing") /\ pc = "image"

LabelsOf(cells) == [i \in 1..Len(cells) |-> <<PriceLabel(cells[i]), QtyLabel(cells[i])>>]

====
